---------------------------- MODULE Spec2Model ----------------------------
(***************************************************************************)
(* Model of manual_fan.py (rockpi-penta): the sysfs PWM controller (class  *)
(* Pwm), the software PWM controller with its timing thread (class         *)
(* GpioPWM), and main() with its session loop and clean-up.                *)
(*                                                                         *)
(* Numbers.  Duty fractions are fixed-point in thousandths (One = 1.0,     *)
(* CapHw = 0.999).  Hardware periods are nanoseconds; software times are   *)
(* microseconds (PeriodS = 0.025 s).  The input sets below are chosen so   *)
(* that the Python float computation int(period * duty) and the exact      *)
(* fixed-point computation agree on every pair.                            *)
(*                                                                         *)
(* Strings are sequences of characters.  The controllers are driven call   *)
(* by call in SpecHw and SpecSw, parse_duty in SpecParse, Pwm.__init__ in  *)
(* SpecCtor; SpecMain is main() from get_controller to the process exit.   *)
(***************************************************************************)
EXTENDS Integers, Sequences, FiniteSets, TLC

\* ------------------------------------------------------------------------
\* Program constants
\* ------------------------------------------------------------------------
None == -1            \* Python None (period_value before period() is called)
One == 1000           \* the fraction 1.0
CapHw == 999          \* the fraction 0.999, Pwm.write's cap
PeriodS == 25000      \* GpioPWM(period_s=0.025), in microseconds
HwPeriodUs == 40      \* ctrl.period_us(40)

\* ------------------------------------------------------------------------
\* Input sets
\* ------------------------------------------------------------------------
\* fractions handed to write(): below 0, 0, inside (0,1), 0.999, 1.0, above 1
Fractions == {-500, 0, 125, 400, 500, 999, 1000, 1500}
\* periods handed to Pwm.period(): all positive; 25 makes floor() matter
Periods == {25, 10000, 40000}

VARIABLES
  \* ---- class Pwm and the sysfs control surface
  period_value,   \* Pwm.period_value: None or the last ns given to period()
  sysfs,          \* contents of the period / duty_cycle / enable attributes
  result,         \* how the last Pwm method call ended
  last_call,      \* the last Pwm method call: [op, arg]
  hw_hist,        \* history: period() called / succeeded, some call raised
  \* ---- class GpioPWM, its GPIO line and its thread
  period_s, high_time, low_time, stop_flag,
  line,           \* the level last driven on the GPIO line
  tpc,            \* position of the timing thread in _run
  slept,          \* durations the thread slept for in the current iteration
  iter,           \* history of the current iteration of _run
  fpc,            \* position of the foreground inside a GpioPWM method
  f_duty,         \* GpioPWM.write's local `duty` after clamping
  sw_hist,        \* history: stop() returned, the <<high, low>> of the last
                  \* completed write(), some set_value() raised, the
                  \* argument of the last write() entered, how the last
                  \* stop() ended, stop() entered again / after _run ended
  \* ---- main()
  pc,             \* position of main()
  mode,           \* the mode get_controller returned
  duty,           \* main's local `duty`
  notice,         \* the 99.9% notice was printed for the current command
  exc,            \* the exception main() is left by, "none" without one
  teardown,       \* history: what the finally block attempted, in order
  raw,            \* the string handed to parse_duty
  parsed,         \* what parse_duty made of the command being processed:
                  \* [ok, val], ok = FALSE for a ValueError
  sess,           \* history of the session loop: how it ended, a parse
                  \* failed, a ctrl.write raised
  init_steps,     \* history: the steps get_controller entered, in order
  ctor,           \* progress of Pwm.__init__: how the export went, passes
                  \* of the poll loop, milliseconds slept, how it ended
  isdir           \* whether the channel's sysfs directory exists now

hwVars == <<period_value, sysfs, result, last_call, hw_hist>>
swVars == <<period_s, high_time, low_time, stop_flag, line, tpc, slept, iter,
            fpc, f_duty, sw_hist>>
cmdVars == <<raw, parsed, duty, notice>>
selVars == <<init_steps, ctor, isdir>>
mainVars == <<pc, mode, exc, teardown, sess, cmdVars, selVars>>
vars == <<hwVars, swVars, mainVars>>

Max(a, b) == IF a >= b THEN a ELSE b
Min(a, b) == IF a <= b THEN a ELSE b

\* Python int(n / d) for an exact quotient n / d with d > 0: truncation
\* towards zero.
IntOf(n, d) == IF n >= 0 THEN n \div d ELSE -((-n) \div d)

\* ------------------------------------------------------------------------
\* class Pwm
\* ------------------------------------------------------------------------
NoValue == None       \* an attribute the program has not written

\* line 57: if self.period_value is None
PeriodNotSet_never(pv) == FALSE
PeriodNotSet(pv) == pv = None

\* line 60: duty = max(0.0, min(duty, 0.999))
ClampHw_one(d) == Max(0, Min(d, One))
ClampHw(d) == Max(0, Min(d, CapHw))

\* line 62: int(self.period_value * duty)
DutyNs(pv, d) == IntOf(pv * d, One)

\* Pwm.period(ns): the attribute is assigned before the file is written, so
\* it keeps ns also when the write raises OSError (ok = FALSE).
Pwm_period(ns, ok) ==
  /\ period_value' = ns
  /\ sysfs' = IF ok THEN [sysfs EXCEPT !.period = ns] ELSE sysfs
  /\ result' = IF ok THEN "ok" ELSE "OSError"
  /\ last_call' = [op |-> "period", arg |-> ns]
  /\ hw_hist' = [called |-> TRUE, succeeded |-> hw_hist.succeeded \/ ok,
                  raised |-> hw_hist.raised \/ ~ok]

\* Pwm.enable(enable)
Pwm_enable(en, ok) ==
  /\ sysfs' = IF ok THEN [sysfs EXCEPT !.enable = IF en THEN 1 ELSE 0] ELSE sysfs
  /\ result' = IF ok THEN "ok" ELSE "OSError"
  /\ last_call' = [op |-> "enable", arg |-> IF en THEN 1 ELSE 0]
  /\ hw_hist' = [hw_hist EXCEPT !.raised = @ \/ ~ok]
  /\ UNCHANGED period_value

\* Pwm.write(duty)
Pwm_write(d, ok) ==
  /\ IF PeriodNotSet(period_value)
       THEN /\ result' = "RuntimeError"
            /\ sysfs' = sysfs
       ELSE /\ result' = IF ok THEN "ok" ELSE "OSError"
            /\ sysfs' = IF ok
                          THEN [sysfs EXCEPT
                                  !.duty_cycle = DutyNs(period_value, ClampHw(d))]
                          ELSE sysfs
  /\ last_call' = [op |-> "write", arg |-> d]
  /\ hw_hist' = [hw_hist EXCEPT !.raised = @ \/ result' # "ok"]
  /\ UNCHANGED period_value

\* Pwm.__init__ has run: no period yet, nothing written to the attributes.
PwmInit ==
  /\ period_value = None
  /\ sysfs = [period |-> NoValue, duty_cycle |-> NoValue, enable |-> NoValue]
  /\ result = "none"
  /\ last_call = [op |-> "none", arg |-> 0]
  /\ hw_hist = [called |-> FALSE, succeeded |-> FALSE, raised |-> FALSE]

\* the history records before anything has happened
Iter0 == [fresh |-> FALSE, written |-> FALSE, latest |-> <<>>]
SwHist0 ==
  [stop_returned |-> FALSE, completed |-> <<>>, gpio_raised |-> FALSE,
   arg |-> 0, last_stop |-> "none", repeated |-> FALSE, late |-> FALSE]

\* GpioPWM not constructed
SwIdle ==
  /\ period_s = 0 /\ high_time = 0 /\ low_time = 0
  /\ stop_flag = FALSE
  /\ line = 0
  /\ tpc = "none"
  /\ slept = [high |-> None, low |-> None]
  /\ iter = Iter0
  /\ fpc = "idle"
  /\ f_duty = 0
  /\ sw_hist = SwHist0

\* ---- the hardware controller driven call by call
CallPeriod ==
  /\ pc = "hw_calls"
  /\ \E ns \in Periods, ok \in BOOLEAN : Pwm_period(ns, ok)
  /\ UNCHANGED <<swVars, mainVars>>

CallHwWrite ==
  /\ pc = "hw_calls"
  /\ \E d \in Fractions, ok \in BOOLEAN : Pwm_write(d, ok)
  /\ UNCHANGED <<swVars, mainVars>>

CallEnable ==
  /\ pc = "hw_calls"
  /\ \E en \in BOOLEAN, ok \in BOOLEAN : Pwm_enable(en, ok)
  /\ UNCHANGED <<swVars, mainVars>>

InitHw ==
  /\ PwmInit /\ SwIdle
  /\ pc = "hw_calls" /\ mode = "hardware"
  /\ duty = 0 /\ notice = FALSE /\ exc = "none" /\ teardown = <<>>
  /\ raw = <<>> /\ parsed = [ok |-> FALSE, val |-> 0]
  /\ sess = [ended |-> "none", parse_failed |-> FALSE, write_failed |-> FALSE]
  /\ init_steps = <<>> /\ isdir = TRUE
  /\ ctor = [export |-> "none", polls |-> 0, waited |-> 0, result |-> "none"]

NextHw == CallPeriod \/ CallHwWrite \/ CallEnable

SpecHw == InitHw /\ [][NextHw]_vars

\* ------------------------------------------------------------------------
\* class GpioPWM
\* ------------------------------------------------------------------------

\* line 95: duty = max(0.0, min(duty, 1.0))
ClampSw_hw(d) == Max(0, Min(d, CapHw))
ClampSw(d) == Max(0, Min(d, One))

\* line 88: while not self._stop
LoopCond_always(stop) == TRUE
LoopCond(stop) == ~stop

\* GpioPWM.__init__ (lines 75-84) has run: both times are half the period,
\* the line is requested as an output (low) and the thread is started.
GpioPWM_init ==
  /\ period_s = PeriodS
  /\ high_time = PeriodS \div 2
  /\ low_time = PeriodS \div 2
  /\ stop_flag = FALSE
  /\ line = 0
  /\ tpc = "while"
  /\ slept = [high |-> None, low |-> None]
  /\ iter = Iter0
  /\ fpc = "idle"
  /\ f_duty = 0
  /\ sw_hist = SwHist0

\* ---- GpioPWM._run, one action per statement.  tpc is "while", "set1",
\* "sleep_high", "set0", "sleep_low" inside the loop, "exited" after the
\* loop, "dead" when set_value() raised in the thread, "killed" when the
\* process exited under the daemon thread.

\* line 88: the loop test; a new iteration starts when the flag is clear
Run_while ==
  /\ tpc = "while"
  /\ IF LoopCond(stop_flag)
       THEN /\ tpc' = "set1"
            /\ slept' = [high |-> None, low |-> None]
            /\ iter' = [fresh |-> sw_hist.completed # <<>>,
                        written |-> fpc \in {"w96", "w97"},
                        latest |-> <<>>]
       ELSE /\ tpc' = "exited"
            /\ UNCHANGED <<slept, iter>>
  /\ UNCHANGED <<period_s, high_time, low_time, stop_flag, line, fpc, f_duty,
                 sw_hist, hwVars, mainVars>>

\* line 89: self.line.set_value(1)
Run_set1 ==
  /\ tpc = "set1"
  /\ \E ok \in BOOLEAN :
       /\ line' = IF ok THEN 1 ELSE line
       /\ tpc' = IF ok THEN "sleep_high" ELSE "dead"
       /\ sw_hist' = [sw_hist EXCEPT !.gpio_raised = @ \/ ~ok]
  /\ UNCHANGED <<period_s, high_time, low_time, stop_flag, slept, iter, fpc,
                 f_duty, hwVars, mainVars>>

\* line 90: time.sleep(self.high_time) reads high_time as it is now
Run_sleep_high_low ==
  /\ tpc = "sleep_high"
  /\ slept' = [slept EXCEPT !.high = low_time]
  /\ tpc' = "set0"
  /\ UNCHANGED <<period_s, high_time, low_time, stop_flag, line, iter, fpc,
                 f_duty, sw_hist, hwVars, mainVars>>

Run_sleep_high ==
  /\ tpc = "sleep_high"
  /\ slept' = [slept EXCEPT !.high = high_time]
  /\ tpc' = "set0"
  /\ UNCHANGED <<period_s, high_time, low_time, stop_flag, line, iter, fpc,
                 f_duty, sw_hist, hwVars, mainVars>>

\* line 91: self.line.set_value(0)
Run_set0 ==
  /\ tpc = "set0"
  /\ \E ok \in BOOLEAN :
       /\ line' = IF ok THEN 0 ELSE line
       /\ tpc' = IF ok THEN "sleep_low" ELSE "dead"
       /\ sw_hist' = [sw_hist EXCEPT !.gpio_raised = @ \/ ~ok]
  /\ UNCHANGED <<period_s, high_time, low_time, stop_flag, slept, iter, fpc,
                 f_duty, hwVars, mainVars>>

\* line 92: time.sleep(self.low_time) reads low_time as it is now
Run_sleep_low_high ==
  /\ tpc = "sleep_low"
  /\ slept' = [slept EXCEPT !.low = high_time]
  /\ iter' = [iter EXCEPT !.latest = sw_hist.completed]
  /\ tpc' = "while"
  /\ UNCHANGED <<period_s, high_time, low_time, stop_flag, line, fpc, f_duty,
                 sw_hist, hwVars, mainVars>>

Run_sleep_low ==
  /\ tpc = "sleep_low"
  /\ slept' = [slept EXCEPT !.low = low_time]
  /\ iter' = [iter EXCEPT !.latest = sw_hist.completed]
  /\ tpc' = "while"
  /\ UNCHANGED <<period_s, high_time, low_time, stop_flag, line, fpc, f_duty,
                 sw_hist, hwVars, mainVars>>

Run == Run_while \/ Run_set1 \/ Run_sleep_high \/ Run_set0 \/ Run_sleep_low

\* ---- GpioPWM.write and GpioPWM.stop on the foreground thread, one action
\* per statement that touches shared state.  fpc is "idle" outside a method,
\* "w96", "w97" inside write, "s100", "s102" inside stop.

\* line 96: self.high_time = self.period_s * duty
Write_96 ==
  /\ fpc = "w96"
  /\ high_time' = (period_s * f_duty) \div One
  /\ fpc' = "w97"
  /\ UNCHANGED <<period_s, low_time, stop_flag, line, tpc, slept, iter, f_duty,
                 sw_hist, hwVars, mainVars>>

\* line 97: self.low_time = self.period_s - self.high_time; write returns
Write_97 ==
  /\ fpc = "w97"
  /\ low_time' = period_s - high_time
  /\ fpc' = "idle"
  /\ sw_hist' = [sw_hist EXCEPT !.completed = <<high_time, low_time'>>]
  /\ UNCHANGED <<period_s, high_time, stop_flag, line, tpc, slept, iter,
                 f_duty, hwVars, mainVars>>

\* line 100: self._stop = True
Stop_100 ==
  /\ fpc = "s100"
  /\ stop_flag' = TRUE
  /\ fpc' = "s102"
  /\ UNCHANGED <<period_s, high_time, low_time, line, tpc, slept, iter, f_duty,
                 sw_hist, hwVars, mainVars>>

\* line 102: the level of the line after stop()'s self.line.set_value(0)
StopDrives_skip(cur, ok) == cur
StopDrives(cur, ok) == IF ok THEN 0 ELSE cur

\* lines 101-104: self.line.set_value(0), an exception swallowed; stop returns
Stop_102 ==
  /\ fpc = "s102"
  /\ \E ok \in BOOLEAN :
       /\ line' = StopDrives(line, ok)
       /\ sw_hist' = [sw_hist EXCEPT !.stop_returned = TRUE,
                                     !.gpio_raised = @ \/ ~ok,
                                     !.last_stop = IF ok THEN "low"
                                                        ELSE "swallowed"]
  /\ fpc' = "idle"
  /\ UNCHANGED <<period_s, high_time, low_time, stop_flag, tpc, slept, iter,
                 f_duty, hwVars, mainVars>>

Method == Write_96 \/ Write_97 \/ Stop_100 \/ Stop_102

\* ctrl.write(d) is entered: line 95 clamps the argument
EnterWrite(d) ==
  /\ f_duty' = ClampSw(d)
  /\ fpc' = "w96"
  /\ sw_hist' = [sw_hist EXCEPT !.arg = d]
  /\ iter' = [iter EXCEPT !.written = TRUE]

\* ctrl.stop() is entered
EnterStop ==
  /\ fpc' = "s100"
  /\ sw_hist' = [sw_hist EXCEPT !.repeated = @ \/ sw_hist.stop_returned,
                                !.late = @ \/ tpc \in {"exited", "dead"}]
  /\ UNCHANGED <<f_duty, iter>>

\* ---- the software controller driven call by call, next to its thread
CallSwWrite ==
  /\ pc = "sw_calls" /\ fpc = "idle"
  /\ \E d \in Fractions : EnterWrite(d)
  /\ UNCHANGED <<period_s, high_time, low_time, stop_flag, line, tpc, slept,
                 hwVars, mainVars>>

CallStop ==
  /\ pc = "sw_calls" /\ fpc = "idle"
  /\ EnterStop
  /\ UNCHANGED <<period_s, high_time, low_time, stop_flag, line, tpc, slept,
                 hwVars, mainVars>>

InitSw ==
  /\ PwmInit /\ GpioPWM_init
  /\ pc = "sw_calls" /\ mode = "software"
  /\ duty = 0 /\ notice = FALSE /\ exc = "none" /\ teardown = <<>>
  /\ raw = <<>> /\ parsed = [ok |-> FALSE, val |-> 0]
  /\ sess = [ended |-> "none", parse_failed |-> FALSE, write_failed |-> FALSE]
  /\ init_steps = <<>> /\ isdir = FALSE
  /\ ctor = [export |-> "none", polls |-> 0, waited |-> 0, result |-> "none"]

NextSw == CallSwWrite \/ CallStop \/ Method \/ Run

SpecSw == InitSw /\ [][NextSw]_vars

\* The thread is scheduled: a step of _run that can be taken is taken.
FairSpecSw == SpecSw /\ WF_vars(Run)

\* ------------------------------------------------------------------------
\* parse_duty
\* ------------------------------------------------------------------------
\* A string is the sequence of its characters.

\* str.strip(), for the one whitespace character the inputs have
RECURSIVE lstrip(_)
lstrip(s) ==
  IF s # <<>> /\ Head(s) = " " THEN lstrip(Tail(s)) ELSE s

RECURSIVE rstrip(_, _)
rstrip(s, c) ==
  IF s # <<>> /\ s[Len(s)] = c THEN rstrip(SubSeq(s, 1, Len(s) - 1), c) ELSE s

strip(s) == rstrip(lstrip(s), " ")

\* str.lower(), for the capital letters the inputs have
Capitals == <<"Q", "U", "I", "T", "E", "X">>
Smalls == <<"q", "u", "i", "t", "e", "x">>
lower(s) ==
  [i \in 1..Len(s) |->
     IF \E k \in 1..Len(Capitals) : Capitals[k] = s[i]
       THEN Smalls[CHOOSE k \in 1..Len(Capitals) : Capitals[k] = s[i]]
       ELSE s[i]]

Digits == <<"0", "1", "2", "3", "4", "5", "6", "7", "8", "9">>
IsDigit(c) == \E k \in 1..Len(Digits) : Digits[k] = c
DigitOf(c) == (CHOOSE k \in 1..Len(Digits) : Digits[k] = c) - 1

RECURSIVE DigitsVal(_)
DigitsVal(s) ==
  IF s = <<>> THEN 0
  ELSE 10 * DigitsVal(SubSeq(s, 1, Len(s) - 1)) + DigitOf(s[Len(s)])

\* float(s) for decimal numerals: surrounding whitespace is ignored, then an
\* optional sign, digits with at most one ".", at least one digit; anything
\* else raises ValueError.  The value is in thousandths, exact for numerals
\* of at most three decimals (exponents, "inf", "nan" and "_" are not
\* covered).
float(s) ==
  LET t == strip(s)
      signed == t # <<>> /\ Head(t) \in {"-", "+"}
      u == IF signed THEN Tail(t) ELSE t
      dots == {i \in 1..Len(u) : u[i] = "."}
      dot == IF dots = {} THEN Len(u) + 1 ELSE CHOOSE i \in dots : TRUE
      ip == SubSeq(u, 1, dot - 1)
      fr == SubSeq(u, dot + 1, Len(u))
      ok == /\ Cardinality(dots) <= 1
            /\ Len(ip) + Len(fr) >= 1
            /\ \A i \in 1..Len(ip) : IsDigit(ip[i])
            /\ \A i \in 1..Len(fr) : IsDigit(fr[i])
      mag == DigitsVal(ip) * One
               + DigitsVal(SubSeq(fr \o <<"0", "0", "0">>, 1, 3))
  IN IF ok
       THEN [ok |-> TRUE, val |-> IF signed /\ Head(t) = "-" THEN -mag ELSE mag]
       ELSE [ok |-> FALSE, val |-> 0]

\* line 130: if val > 1.0
IsPercent_ge(v) == v >= One
IsPercent(v) == v > One

\* parse_duty (lines 124-132); ok = FALSE is the ValueError
parse_duty(raw_s) ==
  LET s == rstrip(lower(strip(raw_s)), "%")
  IN IF s = <<>> THEN [ok |-> FALSE, val |-> 0]
     ELSE IF ~float(s).ok THEN [ok |-> FALSE, val |-> 0]
     ELSE [ok |-> TRUE,
           val |-> IF IsPercent(float(s).val)
                     THEN IntOf(float(s).val, 100)
                     ELSE float(s).val]

\* Numerals an operator may type, each with its value in thousandths; the
\* values above 1.0 are multiples of 0.1, so that dividing by 100 is exact
\* in thousandths.
Numerals ==
  { [text |-> <<"3", "5">>, v |-> 35000],
    [text |-> <<"0", ".", "3", "5">>, v |-> 350],
    [text |-> <<"1", ".", "0">>, v |-> 1000],
    [text |-> <<"1">>, v |-> 1000],
    [text |-> <<"1", ".", "5">>, v |-> 1500],
    [text |-> <<"1", "0", "0">>, v |-> 100000],
    [text |-> <<"1", "5", "0">>, v |-> 150000],
    [text |-> <<"0">>, v |-> 0],
    [text |-> <<".", "5">>, v |-> 500],
    [text |-> <<"-", "5">>, v |-> -5000] }

\* a numeral with whitespace before and / or after it and "%" signs after it
Pads == {<<>>, <<" ">>}
Suffixes == {<<>>, <<"%">>, <<"%", "%">>}
Decorate(t, before, pct, after) == before \o t \o pct \o after

\* quit tokens, and text that is no number
QuitWords == {<<"q">>, <<"q", "u", "i", "t">>, <<"e", "x", "i", "t">>}
Words ==
  { <<"q">>, <<"Q">>, <<" ", "Q", "U", "I", "T", " ">>, <<"e", "x", "i", "t">>,
    <<>>, <<" ">>, <<"%">>, <<"q", "%">>, <<"-">>, <<".">>,
    <<"1", ".", "2", ".", "3">>, <<"3", "%", "5">>, <<"3", "5", " ", "%">>,
    <<"3", " ", "5">> }

Commands ==
  Words \cup { Decorate(n.text, b, p, a) :
                 n \in Numerals, b \in Pads, p \in Suffixes, a \in Pads }

\* what the operator types in a session: the words, and the numerals 35,
\* 1.0, 150, 0 and -5 plain, with "%", and inside whitespace
Typed ==
  Words \cup { Decorate(n.text, b, p, b) :
                 n \in {m \in Numerals : m.v \in {35000, 1000, 150000, 0, -5000}},
                 b \in Pads, p \in {<<>>, <<"%">>} }

Parsed0 == [ok |-> FALSE, val |-> 0]
Sess0 == [ended |-> "none", parse_failed |-> FALSE, write_failed |-> FALSE]
Ctor0 == [export |-> "none", polls |-> 0, waited |-> 0, result |-> "none"]

\* main() has not read a command and get_controller has not run
MainIdle ==
  /\ duty = 0 /\ notice = FALSE /\ exc = "none" /\ teardown = <<>>
  /\ raw = <<>> /\ parsed = Parsed0 /\ sess = Sess0
  /\ init_steps = <<>> /\ ctor = Ctor0

\* ---- parse_duty applied to one string after another
CallParse ==
  /\ pc = "parse_calls"
  /\ \E s \in Commands :
       /\ raw' = s
       /\ parsed' = parse_duty(s)
  /\ UNCHANGED <<pc, mode, exc, teardown, sess, duty, notice, selVars,
                 hwVars, swVars>>

InitParse ==
  /\ PwmInit /\ SwIdle /\ MainIdle
  /\ pc = "parse_calls" /\ mode = "none" /\ isdir = FALSE

NextParse == CallParse

SpecParse == InitParse /\ [][NextParse]_vars

\* ------------------------------------------------------------------------
\* Pwm.__init__
\* ------------------------------------------------------------------------
Polls == 50           \* for _ in range(50)
PollMs == 10          \* time.sleep(0.01), in milliseconds

CtorPcs == {"ctor_export", "ctor_poll", "ctor_check"}

\* where get_controller goes on after a step: an exception leaves it
AfterStep_ignore(ok, next) == next
AfterStep(ok, next) == IF ok THEN next ELSE "init_error"

\* line 41: if not os.path.isdir(self.path)
PathMissing_never(d) == FALSE
PathMissing(d) == ~d

\* lines 27-34: the channel is exported unless its directory is there; an
\* OSError from the export file is swallowed
Pwm_init_export ==
  /\ pc = "ctor_export"
  /\ \E ok \in BOOLEAN :
       ctor' = [ctor EXCEPT !.export = IF isdir THEN "skipped"
                                       ELSE IF ok THEN "ok" ELSE "OSError"]
  /\ pc' = "ctor_poll"
  /\ UNCHANGED <<mode, exc, teardown, sess, cmdVars, init_steps, isdir,
                 hwVars, swVars>>

\* lines 37-40: one pass of the loop: the directory is looked up and, when it
\* is not there, the thread sleeps 10 ms; the loop ends at the break or with
\* the fiftieth pass
Pwm_init_poll ==
  /\ pc = "ctor_poll"
  /\ ctor.polls < Polls
  /\ ctor' = [ctor EXCEPT !.polls = @ + 1,
                          !.waited = IF isdir THEN @ ELSE @ + PollMs]
  /\ pc' = IF isdir \/ ctor.polls + 1 = Polls THEN "ctor_check" ELSE "ctor_poll"
  /\ UNCHANGED <<mode, exc, teardown, sess, cmdVars, init_steps, isdir,
                 hwVars, swVars>>

\* lines 41-42: the readiness check; RuntimeError when the directory is not
\* there, else the constructor returns
Pwm_init_check ==
  /\ pc = "ctor_check"
  /\ ctor' = [ctor EXCEPT !.result = IF PathMissing(isdir) THEN "RuntimeError"
                                                            ELSE "ok"]
  /\ pc' = AfterStep(~PathMissing(isdir), "hw_period")
  /\ UNCHANGED <<mode, exc, teardown, sess, cmdVars, init_steps, isdir,
                 hwVars, swVars>>

Pwm_init == Pwm_init_export \/ Pwm_init_poll \/ Pwm_init_check

\* the kernel or another process creates or removes the channel's directory
\* while the constructor runs
EnvSysfs ==
  /\ pc \in CtorPcs
  /\ isdir' = ~isdir
  /\ UNCHANGED <<pc, mode, exc, teardown, sess, cmdVars, init_steps, ctor,
                 hwVars, swVars>>

\* ---- the constructor on its own
InitCtor ==
  /\ PwmInit /\ SwIdle
  /\ duty = 0 /\ notice = FALSE /\ exc = "none" /\ teardown = <<>>
  /\ raw = <<>> /\ parsed = Parsed0 /\ sess = Sess0 /\ ctor = Ctor0
  /\ init_steps = <<"construct">>
  /\ pc = "ctor_export" /\ mode = "none" /\ isdir \in BOOLEAN

NextCtor == Pwm_init \/ EnvSysfs

SpecCtor == InitCtor /\ [][NextCtor]_vars

\* The constructor runs on the main thread and each sleep returns.
FairSpecCtor == SpecCtor /\ WF_vars(Pwm_init)

\* ------------------------------------------------------------------------
\* get_controller and main
\* ------------------------------------------------------------------------

\* lines 154-157: the caps main applies before ctrl.write
CapNotice_gt(m, d) == m = "hardware" /\ d > One
CapNotice(m, d) == m = "hardware" /\ d >= One
Capped(m, d) == Max(0, Min(IF CapNotice(m, d) THEN CapHw ELSE d, One))

\* lines 159-164: where the loop goes on after ctrl.write ended with res
AfterWrite_raise(res) == IF res = "ok" THEN "input" ELSE "finally"
AfterWrite(res) == "input"

\* ---- get_controller (lines 107-121), called at line 137; an exception
\* from it ends main at sys.exit(1) without a controller.  init_steps lists
\* the steps get_controller has entered.
GetControllerHw ==                      \* HARDWARE_PWM is "1": Pwm(chip)
  /\ pc = "start"
  /\ pc' = "ctor_export"
  /\ init_steps' = Append(init_steps, "construct")
  /\ isdir' \in BOOLEAN
  /\ UNCHANGED <<mode, exc, teardown, sess, cmdVars, ctor, hwVars, swVars>>

GetControllerPeriod ==                  \* ctrl.period_us(40)
  /\ pc = "hw_period"
  /\ \E ok \in BOOLEAN :
       /\ Pwm_period(HwPeriodUs * 1000, ok)
       /\ pc' = AfterStep(ok, "hw_enable")
  /\ init_steps' = Append(init_steps, "period")
  /\ ctor' = Ctor0                      \* the constructor's frame is gone
  /\ UNCHANGED <<mode, exc, teardown, sess, cmdVars, isdir, swVars>>

GetControllerEnable ==                  \* ctrl.enable(True); return
  /\ pc = "hw_enable"
  /\ \E ok \in BOOLEAN :
       /\ Pwm_enable(TRUE, ok)
       /\ pc' = AfterStep(ok, "input")
       /\ mode' = IF ok THEN "hardware" ELSE mode
  /\ init_steps' = Append(init_steps, "enable")
  /\ UNCHANGED <<exc, teardown, sess, cmdVars, ctor, isdir, swVars>>

GetControllerSw ==                      \* GpioPWM(period_s=0.025); return
  /\ pc = "start"
  /\ \E ok \in BOOLEAN :
       IF ok
         THEN /\ period_s' = PeriodS
              /\ high_time' = PeriodS \div 2
              /\ low_time' = PeriodS \div 2
              /\ stop_flag' = FALSE
              /\ line' = 0
              /\ tpc' = "while"
              /\ pc' = "input"
              /\ mode' = "software"
         ELSE /\ pc' = "init_error"
              /\ UNCHANGED <<period_s, high_time, low_time, stop_flag, line,
                             tpc, mode>>
  /\ init_steps' = Append(init_steps, "gpio")
  /\ UNCHANGED <<slept, iter, fpc, f_duty, sw_hist, exc, teardown, sess,
                 cmdVars, ctor, isdir, hwVars>>

InitError ==                            \* lines 138-140
  /\ pc = "init_error"
  /\ pc' = "exited"
  /\ exc' = "SystemExit"
  /\ UNCHANGED <<mode, teardown, sess, cmdVars, selVars, hwVars, swVars>>

\* ---- the session loop (lines 143-164)
\* line 145: if raw.lower() in ("q", "quit", "exit")
IsQuit(r) == lower(r) \in QuitWords

\* lines 144-147: what main makes of the typed text t: raw = t.strip() is a
\* quit token, or it is handed to parse_duty
Read ==
  [t \in Typed |-> [quit |-> IsQuit(strip(t)), parsed |-> parse_duty(strip(t))]]

\* lines 144-157: a command is read and stripped; a quit token ends the
\* loop, a command that does not parse raises ValueError, a number is parsed
\* and capped.  The text itself is not read again after these lines.
MainInput ==
  /\ pc = "input" /\ fpc = "idle"
  /\ \E t \in Typed :
       LET p == Read[t].parsed
       IN IF Read[t].quit
            THEN /\ pc' = "finally"
                 /\ sess' = [sess EXCEPT !.ended = "quit"]
                 /\ UNCHANGED <<parsed, duty, notice>>
            ELSE /\ parsed' = p
                 /\ IF ~p.ok
                      THEN /\ pc' = "invalid"
                           /\ sess' = [sess EXCEPT !.parse_failed = TRUE]
                           /\ UNCHANGED <<duty, notice>>
                      ELSE /\ notice' = CapNotice(mode, p.val)
                           /\ duty' = Capped(mode, p.val)
                           /\ pc' = "write"
                           /\ UNCHANGED sess
  /\ UNCHANGED <<raw, mode, exc, teardown, selVars, hwVars, swVars>>

\* lines 149-151: the ValueError is reported; continue
MainInvalid ==
  /\ pc = "invalid"
  /\ pc' = "input"
  /\ parsed' = Parsed0
  /\ UNCHANGED <<raw, mode, exc, teardown, sess, duty, notice, selVars, hwVars,
                 swVars>>

\* input() raises EOFError: not caught, main is left through the finally block
MainInputError ==
  /\ pc = "input" /\ fpc = "idle"
  /\ exc' = "EOFError"
  /\ pc' = "finally"
  /\ sess' = [sess EXCEPT !.ended = "eof"]
  /\ UNCHANGED <<mode, teardown, cmdVars, selVars, hwVars, swVars>>

\* KeyboardInterrupt anywhere in the try block, also inside ctrl.write
\* (line 166): the call in progress is abandoned.
MainInterrupt ==
  /\ pc \in {"input", "invalid", "write"}
  /\ pc' = "finally"
  /\ fpc' = "idle"
  /\ sess' = [sess EXCEPT !.ended = "interrupt"]
  /\ parsed' = Parsed0
  /\ UNCHANGED <<period_s, high_time, low_time, stop_flag, line, tpc, slept,
                 iter, f_duty, sw_hist, raw, mode, duty, notice, exc, teardown,
                 selVars, hwVars>>

\* lines 159-164, hardware: ctrl.write(duty); an exception is reported
MainWriteHw ==
  /\ pc = "write" /\ mode = "hardware"
  /\ \E ok \in BOOLEAN : Pwm_write(duty, ok)
  /\ pc' = AfterWrite(result')
  /\ sess' = [sess EXCEPT !.write_failed = @ \/ result' # "ok"]
  /\ parsed' = Parsed0
  /\ UNCHANGED <<raw, mode, duty, notice, exc, teardown, selVars, swVars>>

\* lines 159-164, software: ctrl.write(duty) is entered
MainWriteSw ==
  /\ pc = "write" /\ mode = "software" /\ fpc = "idle"
  /\ EnterWrite(duty)
  /\ pc' = "input"
  /\ parsed' = Parsed0
  /\ UNCHANGED <<period_s, high_time, low_time, stop_flag, line, tpc, slept,
                 raw, mode, duty, notice, exc, teardown, sess, selVars, hwVars>>

\* ---- the finally block (lines 168-179)
\* hardware, line 172: ctrl.write(0.0); an exception leaves the try block
TeardownWriteHw ==
  /\ pc = "finally" /\ mode = "hardware"
  /\ \E ok \in BOOLEAN : Pwm_write(0, ok)
  /\ teardown' = Append(teardown, "write0")
  /\ pc' = IF result' = "ok" THEN "td_disable" ELSE "exit"
  /\ UNCHANGED <<mode, exc, sess, cmdVars, selVars, swVars>>

\* hardware, line 173: ctrl.enable(False)
TeardownDisable ==
  /\ pc = "td_disable"
  /\ \E ok \in BOOLEAN : Pwm_enable(FALSE, ok)
  /\ teardown' = Append(teardown, "disable")
  /\ pc' = "exit"
  /\ UNCHANGED <<mode, exc, sess, cmdVars, selVars, swVars>>

\* software, line 175: ctrl.write(0.0) is entered
TeardownWriteSw ==
  /\ pc = "finally" /\ mode = "software" /\ fpc = "idle"
  /\ EnterWrite(0)
  /\ teardown' = Append(teardown, "write0")
  /\ pc' = "td_stop"
  /\ UNCHANGED <<period_s, high_time, low_time, stop_flag, line, tpc, slept,
                 mode, exc, sess, cmdVars, selVars, hwVars>>

\* software, line 176: ctrl.stop() is entered
TeardownStop ==
  /\ pc = "td_stop" /\ fpc = "idle"
  /\ EnterStop
  /\ teardown' = Append(teardown, "stop")
  /\ pc' = "exit"
  /\ UNCHANGED <<period_s, high_time, low_time, stop_flag, line, tpc, slept,
                 mode, exc, sess, cmdVars, selVars, hwVars>>

\* line 179 and the end of the process: a daemon thread still inside _run
\* ends where it is.
MainExit ==
  /\ pc = "exit" /\ fpc = "idle"
  /\ pc' = "exited"
  /\ tpc' = IF tpc \in {"none", "exited", "dead"} THEN tpc ELSE "killed"
  /\ UNCHANGED <<period_s, high_time, low_time, stop_flag, line, slept, iter,
                 fpc, f_duty, sw_hist, mode, exc, teardown, sess, cmdVars,
                 selVars, hwVars>>

InitMain ==
  /\ PwmInit /\ SwIdle /\ MainIdle
  /\ pc = "start" /\ mode = "none" /\ isdir = FALSE

NextMain ==
  \/ GetControllerHw \/ Pwm_init \/ EnvSysfs
  \/ GetControllerPeriod \/ GetControllerEnable
  \/ GetControllerSw \/ InitError
  \/ MainInput \/ MainInvalid \/ MainInputError \/ MainInterrupt
  \/ MainWriteHw \/ MainWriteSw
  \/ TeardownWriteHw \/ TeardownDisable \/ TeardownWriteSw \/ TeardownStop
  \/ MainExit
  \/ Method \/ Run

SpecMain == InitMain /\ [][NextMain]_vars

\* ------------------------------------------------------------------------
\* Properties of the hardware controller (SpecHw)
\* ------------------------------------------------------------------------

\* C4: after any sequence of period() and write() calls with positive periods
\* (none of which raised), the value last written to the duty_cycle attribute
\* is strictly below the value last written to the period attribute, also
\* after a period() call that follows a write().
C4_DutyBelowPeriod ==
  (~hw_hist.raised /\ sysfs.duty_cycle # NoValue /\ sysfs.period # NoValue)
    => sysfs.duty_cycle < sysfs.period

\* C5: write() writes the duty_cycle attribute only after some period() call
\* succeeded in writing the period attribute; while every period() call so
\* far has failed, no write() goes through.
C5_WriteNeedsSuccessfulPeriod ==
  ~hw_hist.succeeded =>
    /\ sysfs.duty_cycle = NoValue
    /\ last_call.op = "write" => result # "ok"

\* C6: while period() has never been called, every write() ends with the
\* "PWM period not set" RuntimeError and the duty_cycle attribute is never
\* written.
C6_WriteBeforePeriod ==
  ~hw_hist.called =>
    /\ sysfs.duty_cycle = NoValue
    /\ last_call.op = "write" => result = "RuntimeError"

C6_Witness ==
  /\ ~hw_hist.called
  /\ last_call.op = "write" /\ last_call.arg \in {-500, 500, 1500}
  /\ result = "RuntimeError"

\* C7: a write(f) that goes through leaves floor(period * clamp(f, 0, 0.999))
\* in the duty_cycle attribute, for f below 0 and above 1 as well; with a
\* period of 40000 ns, 0.5 gives 20000 and 1.5 gives 39960.
C7_Clamped(f) == IF f < 0 THEN 0 ELSE IF f > 999 THEN 999 ELSE f

C7_DutyFormula ==
  (last_call.op = "write" /\ result = "ok") =>
    /\ sysfs.duty_cycle = (period_value * C7_Clamped(last_call.arg)) \div 1000
    /\ (period_value = 40000 /\ last_call.arg = 500) => sysfs.duty_cycle = 20000
    /\ (period_value = 40000 /\ last_call.arg = 1500) => sysfs.duty_cycle = 39960

C7_Witness ==
  /\ last_call = [op |-> "write", arg |-> 1500] /\ result = "ok"
  /\ period_value = 40000 /\ sysfs.duty_cycle = 39960


\* ------------------------------------------------------------------------
\* Properties of the software controller (SpecSw, FairSpecSw)
\* ------------------------------------------------------------------------

\* C1: in every state after a call to stop() has returned (no set_value()
\* call having raised), the GPIO line is low: the thread does not drive it
\* high once stop() has returned.
C1_LowAfterStop ==
  (sw_hist.stop_returned /\ ~sw_hist.gpio_raised) => line = 0

\* C8: the high time and the low time the thread sleeps for in one iteration
\* of _run add up to the period, also when write() runs next to it.
C8_SleptSumIsPeriod ==
  (slept.high # None /\ slept.low # None) => slept.high + slept.low = period_s

\* C9: an iteration of _run that began after a write() had completed sleeps
\* for the high and low times of the most recent completed write().
C9_UsesLatestWrite ==
  (iter.fresh /\ slept.high # None /\ slept.low # None)
    => <<slept.high, slept.low>> = iter.latest

\* C10: once stop() has set the flag it stays set, the thread starts no new
\* iteration at the loop test (so it finishes at most the iteration in
\* progress), and, the thread being scheduled, _run ends.
C10_StopEndsRun ==
  /\ [][stop_flag => stop_flag']_vars
  /\ [][stop_flag => ~(tpc = "while" /\ tpc' = "set1")]_vars
  /\ stop_flag ~> (tpc \in {"exited", "dead"})

C10_Witness ==
  stop_flag /\ tpc = "exited" /\ slept.low # None /\ ~sw_hist.gpio_raised

\* ------------------------------------------------------------------------
\* Properties of main (SpecMain)
\* ------------------------------------------------------------------------

\* C2: software mode: when the finally block has run write(0.0) and then
\* stop() (no set_value() call having raised) and the process has exited, the
\* level last driven on the GPIO line is low.
C2_LowAtExit ==
  (/\ pc = "exited" /\ mode = "software"
   /\ teardown = <<"write0", "stop">> /\ ~sw_hist.gpio_raised)
    => line = 0

\* C3: hardware mode: the finally block attempts write(0.0) and then
\* enable(False); the disable is attempted also when the write raised.
C3_DisableAttempted ==
  (pc = "exited" /\ mode = "hardware")
    => teardown = <<"write0", "disable">>

\* ------------------------------------------------------------------------
\* Further properties of the software controller (SpecSw)
\* ------------------------------------------------------------------------

\* C12: stop() can be called again, also after _run has ended; every call
\* returns normally with the flag set, having driven the line low, or, when
\* its set_value() raised, having swallowed the exception.
C12_StopIdempotent ==
  /\ [][(fpc = "s102" /\ fpc' # "s102") =>
          /\ fpc' = "idle" /\ stop_flag' /\ sw_hist'.stop_returned
          /\ sw_hist'.last_stop \in {"low", "swallowed"}
          /\ sw_hist'.last_stop = "low" => line' = 0
          /\ sw_hist'.last_stop = "swallowed" => line' = line]_vars
  /\ [](sw_hist.stop_returned => stop_flag)

C12_Witness ==
  /\ sw_hist.repeated /\ sw_hist.late /\ tpc = "exited"
  /\ fpc = "idle" /\ sw_hist.last_stop = "low" /\ line = 0 /\ stop_flag

\* C13: once write(f) has completed, high_time is period * clamp(f, 0, 1),
\* high_time + low_time is the period and the period is unchanged; with the
\* 25 ms period write(0.4) leaves 10 ms and 15 ms.
C13_Clamped(f) == IF f < 0 THEN 0 ELSE IF f > 1000 THEN 1000 ELSE f

C13_WritePair ==
  (fpc = "idle" /\ sw_hist.completed # <<>>) =>
    /\ period_s = 25000
    /\ high_time * 1000 = period_s * C13_Clamped(sw_hist.arg)
    /\ high_time + low_time = period_s
    /\ sw_hist.arg = 400 => (high_time = 10000 /\ low_time = 15000)

C13_Witness ==
  /\ fpc = "idle" /\ sw_hist.completed # <<>> /\ sw_hist.arg = 400
  /\ high_time = 10000 /\ low_time = 15000

\* C19: in an iteration of _run that began after write(0.0) had completed,
\* with no write() entered since, the thread does not drive the line high.
C19_ZeroKeepsLow ==
  (/\ iter.fresh /\ ~iter.written /\ sw_hist.arg = 0
   /\ ~sw_hist.gpio_raised /\ tpc \in {"sleep_high", "set0"})
    => line = 0

\* C19, as amended: in such an iteration the thread sleeps for a high time of
\* 0 between driving the line high and driving it low, and for a low time of
\* the whole period.
C19_ZeroPulse ==
  (iter.fresh /\ ~iter.written /\ sw_hist.arg = 0) =>
    /\ slept.high # None => slept.high = 0
    /\ slept.low # None => slept.low = period_s

C19_Witness ==
  /\ iter.fresh /\ ~iter.written /\ sw_hist.arg = 0
  /\ ~sw_hist.gpio_raised /\ ~stop_flag
  /\ tpc = "while" /\ slept = [high |-> 0, low |-> 25000] /\ line = 0

\* C20: in an iteration of _run that began after write(1.0) had completed,
\* with no write() or stop() entered since, the thread does not drive the
\* line low.
C20_OneKeepsHigh ==
  (/\ iter.fresh /\ ~iter.written /\ sw_hist.arg = 1000
   /\ ~stop_flag /\ fpc = "idle" /\ ~sw_hist.gpio_raised
   /\ tpc = "sleep_low")
    => line = 1

\* C20, as amended: in such an iteration the thread sleeps for a high time of
\* the whole period and, between driving the line low and driving it high
\* again, for a low time of 0.
C20_ZeroGap ==
  (iter.fresh /\ ~iter.written /\ sw_hist.arg = 1000) =>
    /\ slept.high # None => slept.high = period_s
    /\ slept.low # None => slept.low = 0

C20_Witness ==
  /\ iter.fresh /\ ~iter.written /\ sw_hist.arg = 1000
  /\ ~sw_hist.gpio_raised /\ ~stop_flag /\ fpc = "idle"
  /\ tpc = "while" /\ slept = [high |-> 25000, low |-> 0]

\* ------------------------------------------------------------------------
\* Properties of parse_duty (SpecParse)
\* ------------------------------------------------------------------------

\* C15: a numeral of value v, with or without whitespace around it and "%"
\* after it, parses to v / 100 when v > 1.0 and to v otherwise: 35, 35% and
\* 0.35 give 0.35 and 1.0 gives 1.0; the "%" changes nothing.
C15_ParseRule ==
  /\ \A n \in Numerals, b \in Pads, p \in Suffixes, a \in Pads :
       raw = Decorate(n.text, b, p, a) =>
         parsed = [ok |-> TRUE,
                   val |-> IF n.v > 1000 THEN n.v \div 100 ELSE n.v]
  /\ raw \in {<<"3", "5">>, <<"3", "5", "%">>, <<"0", ".", "3", "5">>}
       => parsed = [ok |-> TRUE, val |-> 350]
  /\ raw = <<"1", ".", "0">> => parsed = [ok |-> TRUE, val |-> 1000]

C15_Witness ==
  /\ raw = <<" ", "3", "5", "%", " ">>
  /\ parsed = [ok |-> TRUE, val |-> 350]

\* ------------------------------------------------------------------------
\* Properties of Pwm.__init__ (FairSpecCtor)
\* ------------------------------------------------------------------------

\* C18: the constructor makes at most 50 passes of the poll loop, each with
\* at most one sleep of 10 ms, and ends; it returns exactly when the
\* channel's directory is there at the readiness check, whatever the export
\* did, and raises the "PWM path not found" RuntimeError otherwise.
C18_Construction ==
  /\ [](ctor.polls <= 50 /\ ctor.waited <= 10 * ctor.polls)
  /\ [][(pc = "ctor_check" /\ pc' # "ctor_check") =>
          IF isdir THEN pc' = "hw_period" /\ ctor'.result = "ok"
                   ELSE pc' = "init_error" /\ ctor'.result = "RuntimeError"]_vars
  /\ [](ctor.result # "none" => pc \notin {"ctor_export", "ctor_poll", "ctor_check"})
  /\ <>(ctor.result # "none")

C18_Witness ==
  /\ pc = "hw_period" /\ ctor.result = "ok" /\ ctor.export = "OSError"
  /\ ctor.polls = 50 /\ ctor.waited = 500

\* ------------------------------------------------------------------------
\* Further properties of main (SpecMain)
\* ------------------------------------------------------------------------

\* C11: when the process has exited after a controller was selected, the
\* session loop was ended by a quit token, an interrupt or an input error,
\* the finally block has attempted write(0.0) and then disable (hardware) or
\* stop (software), once each, and no exception of the teardown has left main.
C11_TeardownOnce ==
  (pc = "exited" /\ mode # "none") =>
    /\ sess.ended \in {"quit", "interrupt", "eof"}
    /\ teardown = IF mode = "hardware" THEN <<"write0", "disable">>
                                       ELSE <<"write0", "stop">>
    /\ exc = IF sess.ended = "eof" THEN "EOFError" ELSE "none"

\* C14: the fraction main hands to ctrl.write lies in [0, 1]; in hardware
\* mode a parsed value whose clamp to [0, 1] is >= 1.0 is handed on as 0.999
\* and the notice is printed exactly then; in software mode it is handed on
\* as 1.0 without a notice.
C14_Clamp(v) == IF v < 0 THEN 0 ELSE IF v > 1000 THEN 1000 ELSE v

C14_SessionCap ==
  /\ pc = "write" =>
       /\ duty >= 0 /\ duty <= 1000
       /\ mode = "hardware" =>
            IF C14_Clamp(parsed.val) >= 1000
              THEN duty = 999 /\ notice
              ELSE duty = C14_Clamp(parsed.val) /\ ~notice
       /\ mode = "software" => (duty = C14_Clamp(parsed.val) /\ ~notice)
  /\ (mode = "hardware" /\ last_call.op = "write" /\ teardown = <<>>)
       => (last_call.arg >= 0 /\ last_call.arg <= 999)
  /\ (mode = "software" /\ teardown = <<>>)
       => (sw_hist.arg >= 0 /\ sw_hist.arg <= 1000)

C14_Witness ==
  /\ pc = "write" /\ mode = "hardware"
  /\ parsed = [ok |-> TRUE, val |-> 1500] /\ duty = 999 /\ notice

\* C16: a command that does not parse leaves the controller as it is and
\* writes nothing; after it, and after a ctrl.write that raised, the loop
\* reads the next command unless the operator interrupts.
C16_LoopGoesOn ==
  /\ [][((pc = "input" /\ pc' = "invalid") \/ (pc = "invalid" /\ pc' # "invalid"))
          => UNCHANGED <<hwVars, period_s, high_time, low_time, stop_flag,
                         line, fpc, sw_hist>>]_vars
  /\ [][(pc = "invalid" /\ pc' # "invalid")
          => (pc' = "input" \/ sess'.ended = "interrupt")]_vars
  /\ [][(pc = "write" /\ pc' # "write")
          => (pc' = "input" \/ sess'.ended = "interrupt")]_vars
  /\ []((pc = "input" /\ fpc = "idle") => ENABLED MainInput)

C16_Witness ==
  /\ sess.parse_failed /\ sess.write_failed /\ sess.ended = "none"
  /\ mode = "hardware" /\ pc = "input"
  /\ last_call.op = "write" /\ result = "ok"

\* C17: with hardware PWM selected, get_controller constructs the Pwm, sets
\* the period to 40000 ns, enables the output and returns "hardware", in
\* this order; a step that fails is the last one, main ends at sys.exit(1)
\* with no duty write, no session and no teardown, and no GpioPWM is made.
C17_HwOrder == <<"construct", "period", "enable">>

C17_SelectHardware ==
  /\ [](mode = "hardware" =>
          /\ init_steps = C17_HwOrder
          /\ period_value = 40000 /\ sysfs.period = 40000
          /\ teardown = <<>> => sysfs.enable = 1)
  /\ []((init_steps # <<>> /\ init_steps[1] = "construct") =>
          /\ init_steps = SubSeq(C17_HwOrder, 1, Len(init_steps))
          /\ tpc = "none" /\ mode \in {"none", "hardware"}
          /\ (pc = "init_error" \/ exc = "SystemExit") =>
               /\ mode = "none" /\ teardown = <<>>
               /\ sysfs.duty_cycle = NoValue /\ last_call.op # "write"
               /\ sess = [ended |-> "none", parse_failed |-> FALSE,
                          write_failed |-> FALSE])
  /\ [][(pc = "hw_period" /\ pc' # "hw_period") =>
          IF result' = "ok" THEN pc' = "hw_enable" /\ sysfs'.period = 40000
                            ELSE pc' = "init_error"]_vars
  /\ [][(pc = "hw_enable" /\ pc' # "hw_enable") =>
          IF result' = "ok" THEN pc' = "input" /\ mode' = "hardware"
                            ELSE pc' = "init_error" /\ mode' = "none"]_vars
  /\ [][(pc = "ctor_check" /\ pc' # "ctor_check") =>
          IF ctor'.result = "ok" THEN pc' = "hw_period" ELSE pc' = "init_error"]_vars
  /\ [][pc = "init_error" => pc' \in {"init_error", "exited"}]_vars

C17_Witness ==
  /\ mode = "hardware" /\ pc = "input" /\ init_steps = C17_HwOrder
  /\ sysfs.period = 40000 /\ sysfs.enable = 1 /\ sess.ended = "none"

=============================================================================
